---- MODULE Spec2Model ----
(***************************************************************************)
(* DiagnostiQ: the persistence store (backend/database.py) and the session *)
(* orchestrator (app.py, frontend/sidebar.py) as a state machine.          *)
(*                                                                         *)
(* Python values are encoded as follows.  A str is a TLA+ string.  None in *)
(* a TEXT column or a str variable is the string NULL.  An Optional value  *)
(* that is a dict or a row is a sequence of length 0 (None / key absent)   *)
(* or 1.  A dict of numbers is a sequence of [k, v] items in insertion     *)
(* order; a number is [t |-> "int", n] or [t |-> "float", n] with n the    *)
(* value in hundredths (every float of the program is round(x, 2)).        *)
(***************************************************************************)
EXTENDS Integers, Sequences, FiniteSets, TLC

VARIABLES
    sessions,           \* relation sessions(id, title, image_path, mode, created_at)
    messages,           \* relation messages(id, session_id, role, content, usage_data)
    seq,                \* sqlite_sequence of messages (AUTOINCREMENT high-water mark)
    files,              \* paths that exist under frontend/assets
    clock,              \* CURRENT_TIMESTAMP, in seconds
    active_session_id,  \* st.session_state.active_session_id (NULL: key absent)
    trigger_new_chat,   \* st.session_state.trigger_new_chat
    st_messages,        \* st.session_state.messages
    uploaded_file,      \* value of the st.file_uploader widget (NULL: empty)
    rerun,              \* st.rerun() was called: a script run is pending
    uuids,              \* how many uuid4 values have been drawn
    persona_widget,     \* state of the Persona st.selectbox (<<>>: none yet)
    appended,           \* history: the add_message calls whose rows still exist
    last                \* history: the last operation, its arguments and outcome

store == <<sessions, messages, seq, files, clock>>
ui == <<active_session_id, trigger_new_chat, st_messages, uploaded_file, rerun, uuids,
        persona_widget>>
vars == <<sessions, messages, seq, files, clock, active_session_id, trigger_new_chat,
          st_messages, uploaded_file, rerun, uuids, persona_widget, appended, last>>

----------------------------------------------------------------------------
(* Bounds of the model *)

MaxSessions == 2    \* uuid4 values the orchestrator may draw
MaxMsgs == 2        \* add_message calls of a store-level behaviour
MaxChat == 2        \* messages an orchestrator behaviour may insert
MaxHistory == 2     \* entries of the chat_history given to the gateway client
MaxClock == 1       \* seconds that pass in a behaviour with a clock

(* Program constants *)

TitleMax == 30

NULL == "<NULL>"
NEW_INSPECTION == "New Inspection"
GENERAL_ANALYSIS == "General Analysis"
ASSETS_DIR == "frontend/assets"

----------------------------------------------------------------------------
(* Python numbers, str() of them, and json *)

PyInt(n) == [t |-> "int", n |-> n]
PyFloat(h) == [t |-> "float", n |-> h]

DIGITS == "0123456789"
CharAt(s, i) == SubSeq(s, i, i)
DigitChar(d) == CharAt(DIGITS, d + 1)
IsDigit(c) == \E d \in 0..9 : DigitChar(d) = c
DigitVal(c) == CHOOSE d \in 0..9 : DigitChar(d) = c

RECURSIVE IntRepr(_)
IntRepr(n) == IF n < 10 THEN DigitChar(n) ELSE IntRepr(n \div 10) \o DigitChar(n % 10)

\* (mutant) the float written with one decimal
FloatRepr_one_decimal(h) ==
    IntRepr(h \div 100) \o "." \o DigitChar((h % 100) \div 10)

\* repr of a float with at most two decimals: 2.0, 0.5, 12.34
FloatRepr(h) ==
    IntRepr(h \div 100) \o "." \o
    (IF h % 10 = 0 THEN DigitChar((h % 100) \div 10)
     ELSE DigitChar((h % 100) \div 10) \o DigitChar(h % 10))

NumRepr(v) == IF v.t = "int" THEN IntRepr(v.n) ELSE FloatRepr(v.n)

RECURSIVE DumpItems(_, _)
DumpItems(d, i) ==
    IF i > Len(d) THEN ""
    ELSE (IF i > 1 THEN ", " ELSE "") \o "\"" \o d[i].k \o "\": " \o NumRepr(d[i].v)
         \o DumpItems(d, i + 1)

json_dumps(d) == "{" \o DumpItems(d, 1) \o "}"

RECURSIVE Find(_, _, _)
Find(s, c, i) == IF i > Len(s) \/ CharAt(s, i) = c THEN i ELSE Find(s, c, i + 1)

RECURSIVE ScanDigits(_, _, _)
ScanDigits(s, i, acc) ==
    IF i <= Len(s) /\ IsDigit(CharAt(s, i))
    THEN ScanDigits(s, i + 1, [end |-> i + 1,
                               val |-> acc.val * 10 + DigitVal(CharAt(s, i)),
                               len |-> acc.len + 1])
    ELSE acc

ParseNumber(s, i) ==
    LET ip == ScanDigits(s, i, [end |-> i, val |-> 0, len |-> 0])
    IN IF ip.end <= Len(s) /\ CharAt(s, ip.end) = "."
       THEN LET fp == ScanDigits(s, ip.end + 1, [end |-> ip.end + 1, val |-> 0, len |-> 0])
                frac == IF fp.len = 1 THEN fp.val * 10 ELSE fp.val
            IN [end |-> fp.end, v |-> PyFloat(ip.val * 100 + frac)]
       ELSE [end |-> ip.end, v |-> PyInt(ip.val)]

RECURSIVE ParseItems(_, _, _)
ParseItems(s, i, acc) ==
    IF i > Len(s) \/ CharAt(s, i) = "}" THEN acc
    ELSE LET q1 == Find(s, "\"", i)
             q2 == Find(s, "\"", q1 + 1)
             num == ParseNumber(s, q2 + 3)
         IN ParseItems(s, num.end, Append(acc, [k |-> SubSeq(s, q1 + 1, q2 - 1), v |-> num.v]))

json_parse(s) == ParseItems(s, 2, <<>>)

\* the usage structures of the model's inputs: the fields of UsageMetrics.model_dump()
Usage(p, c, t, latency, throughput) ==
    << [k |-> "prompt_tokens", v |-> PyInt(p)], [k |-> "completion_tokens", v |-> PyInt(c)],
       [k |-> "total_tokens", v |-> PyInt(t)], [k |-> "latency", v |-> latency],
       [k |-> "throughput", v |-> throughput] >>
UsageA == Usage(90, 10, 100, PyFloat(200), PyFloat(5000))
UsageInputs ==
    {<<>>, <<<<>>>>, << <<[k |-> "total_tokens", v |-> PyInt(10)]>> >>}
    \cup {<<Usage(pc[1], pc[2], pc[1] + pc[2], PyFloat(l), th)>> :
            pc \in {<<0, 0>>, <<1234, 56>>},
            l \in {0, 5, 50, 200, 1234, 10010},
            th \in {PyInt(0), PyFloat(0), PyFloat(813), PyFloat(64500)}}

\* json.loads: json_parse, looked up for the texts the usage structures above are
\* written as and computed for any other text
JsonTexts ==
    {<<json_dumps(u[1]), json_parse(json_dumps(u[1]))>> :
        u \in (UsageInputs \cup {<<UsageA>>}) \ {<<>>}}
json_loads(s) ==
    IF \E e \in JsonTexts : e[1] = s
    THEN (CHOOSE e \in JsonTexts : e[1] = s)[2]
    ELSE json_parse(s)

\* truthiness of an Optional[dict]: None and {} are falsy
Truthy(usage) == usage # <<>> /\ usage[1] # <<>>

\* the value of a number in hundredths; k in d and d[k] of a dict
NumValue(v) == IF v.t = "int" THEN v.n * 100 ELSE v.n
HasKey(d, k) == \E i \in 1..Len(d) : d[i].k = k
Get(d, k) == d[CHOOSE i \in 1..Len(d) : d[i].k = k].v

----------------------------------------------------------------------------
(* backend/database.py *)

Row(id, title, image_path, mode, created_at) ==
    [id |-> id, title |-> title, image_path |-> image_path, mode |-> mode,
     created_at |-> created_at]

\* (mutant) INSERT OR REPLACE
create_session_replace(S, session_id, title, mode, now) ==
    {r \in S : r.id # session_id} \cup {Row(session_id, title, NULL, mode, now)}

\* INSERT OR IGNORE INTO sessions (id, title, mode): id is the PRIMARY KEY
create_session(S, session_id, title, mode, now) ==
    IF \E r \in S : r.id = session_id THEN S
    ELSE S \cup {Row(session_id, title, NULL, mode, now)}

\* UPDATE sessions SET mode = ? WHERE id = ?
update_session_mode(S, session_id, mode) ==
    {IF r.id = session_id THEN [r EXCEPT !.mode = mode] ELSE r : r \in S}

\* (mutant) the image path is not written
update_session_image_skipped(S, session_id, image_path) == S

\* UPDATE sessions SET image_path = ? WHERE id = ?
update_session_image(S, session_id, image_path) ==
    {IF r.id = session_id THEN [r EXCEPT !.image_path = image_path] ELSE r : r \in S}

\* (mutant) INSERT ... ON CONFLICT(id) DO UPDATE SET title = ?
update_session_title_upsert(S, session_id, new_title) ==
    IF \E r \in S : r.id = session_id
    THEN {IF r.id = session_id THEN [r EXCEPT !.title = new_title] ELSE r : r \in S}
    ELSE S \cup {Row(session_id, new_title, NULL, GENERAL_ANALYSIS, 0)}

\* UPDATE sessions SET title = ? WHERE id = ?
update_session_title(S, session_id, new_title) ==
    {IF r.id = session_id THEN [r EXCEPT !.title = new_title] ELSE r : r \in S}

\* SELECT * FROM sessions WHERE id = ?; fetchone(); dict(row) if row else None
get_session_meta(S, session_id) ==
    IF \E r \in S : r.id = session_id
    THEN <<CHOOSE r \in S : r.id = session_id>>
    ELSE <<>>

\* (mutant) len(content) >= 30
new_title_ge(content) ==
    IF Len(content) >= TitleMax THEN SubSeq(content, 1, TitleMax) \o "..." ELSE content

\* new_title = (content[:30] + '...') if len(content) > 30 else content
new_title(content) ==
    IF Len(content) > TitleMax THEN SubSeq(content, 1, TitleMax) \o "..." ELSE content

\* usage_json = json.dumps(usage) if usage else None
usage_json(usage) == IF Truthy(usage) THEN json_dumps(usage[1]) ELSE NULL

\* INSERT INTO messages (session_id, role, content, usage_data): the id is seq + 1
add_message_rows(M, n, session_id, role, content, usage) ==
    M \cup {[id |-> n + 1, session_id |-> session_id, role |-> role, content |-> content,
             usage_data |-> usage_json(usage)]}

\* if role == "user": UPDATE sessions SET title = ? WHERE id = ? AND title = 'New Inspection'
add_message_title(S, session_id, role, content) ==
    IF role = "user"
    THEN {IF r.id = session_id /\ r.title = NEW_INSPECTION
          THEN [r EXCEPT !.title = new_title(content)] ELSE r : r \in S}
    ELSE S

\* sessions s LEFT JOIN messages m ON s.id = m.session_id
LeftJoin(S, M) ==
    {[s |-> p[1], m |-> <<p[2]>>] : p \in {p \in S \X M : p[1].id = p[2].session_id}}
    \cup {[s |-> s, m |-> <<>>] : s \in {s \in S : ~ \E m \in M : m.session_id = s.id}}

\* (mutant) no WHERE clause
SelectedSessions_unfiltered(S, M) == {j.s : j \in LeftJoin(S, M)}

\* SELECT DISTINCT s.* ... WHERE m.id IS NOT NULL OR s.image_path IS NOT NULL
\*                             OR s.title != 'New Inspection'
SelectedSessions(S, M) ==
    {j.s : j \in {j \in LeftJoin(S, M) :
                    \/ j.m # <<>>
                    \/ j.s.image_path # NULL
                    \/ j.s.title # NEW_INSPECTION}}

Perms(R) ==
    {p \in [1..Cardinality(R) -> R] : \A i, j \in 1..Cardinality(R) : i # j => p[i] # p[j]}

\* ORDER BY s.created_at DESC: every order of the rows that is descending in
\* created_at; rows of the same second come in an order SQL leaves open
get_all_sessions(S, M) ==
    {p \in Perms(SelectedSessions(S, M)) :
        \A i, j \in 1..Len(p) : i < j => p[i].created_at >= p[j].created_at}

\* (mutant) ORDER BY id DESC
RECURSIVE OrderById_desc(_)
OrderById_desc(R) ==
    IF R = {} THEN <<>>
    ELSE LET r == CHOOSE r \in R : \A o \in R : r.id >= o.id
         IN <<r>> \o OrderById_desc(R \ {r})

RECURSIVE OrderById(_)
OrderById(R) ==
    IF R = {} THEN <<>>
    ELSE LET r == CHOOSE r \in R : \A o \in R : r.id <= o.id
         IN <<r>> \o OrderById(R \ {r})

\* msg = {"role", "content"}; msg["usage"] = json.loads(usage_data) if usage_data
HistoryEntry(row) ==
    [role |-> row.role, content |-> row.content,
     usage |-> IF row.usage_data # NULL THEN <<json_loads(row.usage_data)>> ELSE <<>>]

\* SELECT * FROM messages WHERE session_id = ? ORDER BY id ASC
get_session_history(M, session_id) ==
    LET rows == OrderById({m \in M : m.session_id = session_id})
    IN [i \in 1..Len(rows) |-> HistoryEntry(rows[i])]

\* the file of delete_session's step 2: row and row[0] and os.path.exists(image_path)
delete_session_file(S, F, session_id) ==
    LET meta == get_session_meta(S, session_id)
    IN IF meta # <<>> /\ meta[1].image_path # NULL /\ meta[1].image_path \in F
       THEN {meta[1].image_path} ELSE {}

\* (mutant) delete_session without its step 2
delete_session_files_skip(S, F, session_id, remove_ok) == F

\* os.remove(image_path) in try/except: remove_ok is whether it succeeded
delete_session_files(S, F, session_id, remove_ok) ==
    IF remove_ok THEN F \ delete_session_file(S, F, session_id) ELSE F

\* (mutant) DELETE FROM messages without the WHERE
delete_session_messages_all(M, session_id) == {}

\* DELETE FROM messages WHERE session_id = ?
delete_session_messages(M, session_id) == {m \in M : m.session_id # session_id}

\* DELETE FROM sessions WHERE id = ?
delete_session_rows(S, session_id) == {r \in S : r.id # session_id}

\* os.path.join(ASSETS_DIR, f"{session_id}.png")
AssetPath(id) == ASSETS_DIR \o "/" \o id \o ".png"

----------------------------------------------------------------------------
(* backend/api_client.py and backend/utils.py *)
(* bytes are sequences of 0..255; an image_file is <<>> (None) or <<bytes>>; *)
(* a parsed JSON object is a dict of items [k, s] (a str or NULL), [k, n]    *)
(* (an int), [k, usage] (<<>> for null, or <<dict>>), [k, choices] (a list   *)
(* of dicts) and [k, message] (a dict)                                       *)

B64 == "ABCDEFGHIJKLMNOPQRSTUVWXYZabcdefghijklmnopqrstuvwxyz0123456789+/"
B64Char(n) == CharAt(B64, n + 1)

\* base64.b64encode(image_file.getvalue()).decode('utf-8')
RECURSIVE encode_image_to_base64(_)
encode_image_to_base64(b) ==
    IF Len(b) = 0 THEN ""
    ELSE IF Len(b) = 1
    THEN B64Char(b[1] \div 4) \o B64Char((b[1] % 4) * 16) \o "=="
    ELSE IF Len(b) = 2
    THEN B64Char(b[1] \div 4) \o B64Char((b[1] % 4) * 16 + b[2] \div 16)
            \o B64Char((b[2] % 16) * 4) \o "="
    ELSE B64Char(b[1] \div 4) \o B64Char((b[1] % 4) * 16 + b[2] \div 16)
            \o B64Char((b[2] % 16) * 4 + b[3] \div 64) \o B64Char(b[3] % 64)
            \o encode_image_to_base64(SubSeq(b, 4, Len(b)))

\* user_content: the text part, and the image part if image_file
user_content(current_question, image_file) ==
    <<[type |-> "text", text |-> current_question]>> \o
    (IF image_file # <<>>
     THEN <<[type |-> "image_url",
             image_url |-> [url |-> "data:image/jpeg;base64,"
                                     \o encode_image_to_base64(image_file[1])]]>>
     ELSE <<>>)

\* (mutant) the history is sent with the newest entry first
history_messages_reversed(chat_history) ==
    [i \in 1..Len(chat_history) |->
        [role |-> chat_history[Len(chat_history) + 1 - i].role,
         content |-> chat_history[Len(chat_history) + 1 - i].content]]

\* for msg in chat_history: messages.append({"role": ..., "content": ...})
history_messages(chat_history) ==
    [i \in 1..Len(chat_history) |->
        [role |-> chat_history[i].role, content |-> chat_history[i].content]]

\* messages of the payload
build_messages(system_prompt, chat_history, current_question, image_file) ==
    <<[role |-> "system", content |-> system_prompt]>>
    \o history_messages(chat_history)
    \o <<[role |-> "user", content |-> user_content(current_question, image_file)]>>

Raised(message) == [raised |-> <<message>>]
Returned(value) == [raised |-> <<>>, value |-> value]

Item(d, k) == d[CHOOSE i \in 1..Len(d) : d[i].k = k]

\* step 9: the answer text, or the exception of the subscripts
extract_content(data) ==
    IF HasKey(data, "choices")
    THEN LET choices == Item(data, "choices").choices
         IN IF Len(choices) = 0 THEN Raised("list index out of range")
            ELSE IF ~ HasKey(choices[1], "message") THEN Raised("'message'")
            ELSE IF ~ HasKey(Item(choices[1], "message").message, "content")
            THEN Raised("'content'")
            ELSE Returned(Item(Item(choices[1], "message").message, "content").s)
    ELSE IF HasKey(data, "content") THEN Returned(Item(data, "content").s)
    ELSE Returned("Error: No content returned.")

\* (mutant) raw_usage[field] with every other field of a partial object dropped
usage_field_all_or_nothing(raw_usage, field) ==
    IF Len(raw_usage) = 3 THEN Item(raw_usage, field).n ELSE 0

\* raw_usage.get(field, 0)
usage_field(raw_usage, field) ==
    IF HasKey(raw_usage, field) THEN Item(raw_usage, field).n ELSE 0

\* (mutant) int(total_tokens / latency * 100) / 100
round2_truncated(num, den) == {num \div den}

\* round(x, 2) of the quotient num / den (den > 0) that is 100 * x, in hundredths:
\* the nearest one, and either neighbour when the quotient is half way
round2(num, den) ==
    LET q == num \div den
        r == num % den
    IN IF 2 * r < den THEN {q} ELSE IF 2 * r > den THEN {q + 1} ELSE {q, q + 1}

\* step 11: tps, in hundredths, for latency in hundredths
throughput(total_tokens, latency) ==
    IF latency > 0 THEN round2(total_tokens * 10000, latency) ELSE {0}

\* chat_with_industrial_ai after the payload is built: the outcomes of one call
\* whose POST ends as http and takes latency (hundredths of a second)
receive(http, latency) ==
    IF http.transport_error # <<>>
    THEN {Raised("Connection failed: " \o http.transport_error[1])}
    ELSE IF http.status_code # 200
    THEN {Raised("Connection failed: " \o ("API Error: " \o http.text))}
    ELSE IF http.json = <<>>
    THEN {Raised("Connection failed: Expecting value: line 1 column 1 (char 0)")}
    ELSE LET data == http.json[1]
             content == extract_content(data)
         IN IF content.raised # <<>>
            THEN {Raised("Connection failed: " \o content.raised[1])}
            ELSE IF HasKey(data, "usage") /\ Item(data, "usage").usage = <<>>
            THEN {Raised("Connection failed: 'NoneType' object has no attribute 'get'")}
            ELSE LET raw_usage == IF HasKey(data, "usage") THEN Item(data, "usage").usage[1]
                                  ELSE <<[k |-> "prompt_tokens", n |-> 0],
                                         [k |-> "completion_tokens", n |-> 0],
                                         [k |-> "total_tokens", n |-> 0]>>
                     total_tokens == usage_field(raw_usage, "total_tokens")
                 IN IF content.value = NULL
                    THEN {Raised("Connection failed: 1 validation error for ChatResponse")}
                    ELSE {Returned([content |-> content.value,
                                    usage |-> Usage(usage_field(raw_usage, "prompt_tokens"),
                                                    usage_field(raw_usage, "completion_tokens"),
                                                    total_tokens, PyFloat(latency), PyFloat(tps))]) :
                            tps \in throughput(total_tokens, latency)}

----------------------------------------------------------------------------
(* Inputs *)

UUID(i) == "uuid-" \o IntRepr(i)
Ids == {UUID(1), UUID(2)}
AllIds == Ids \cup {UUID(i) : i \in 1..MaxSessions}

Q30 == "Check the bearing for wear now"
Q31 == "Check the bearing for wear now!"
Roles == {"user", "assistant"}
Modes == {GENERAL_ANALYSIS, "Safety Audit"}
Titles == {NEW_INSPECTION, "Pump A"}


\* the calls add_message(id, role, content, usage) of the store-level behaviours
ContentsOf(role) == IF role = "user" THEN {Q30, Q31} ELSE {"OK"}
UsageOf(role) == IF role = "user" THEN <<>> ELSE <<UsageA>>

----------------------------------------------------------------------------
(* The store driven call by call *)

InitStore ==
    /\ sessions = {}
    /\ messages = {}
    /\ seq = 0
    /\ files = {}
    /\ clock = 0
    /\ appended = <<>>
    /\ last = [op |-> "none"]

InitUi ==
    /\ active_session_id = NULL
    /\ trigger_new_chat = FALSE
    /\ st_messages = <<>>
    /\ uploaded_file = NULL
    /\ rerun = TRUE
    /\ uuids = 0
    /\ persona_widget = <<>>

Init == InitStore /\ InitUi

LogEntry(id, role, content, usage) ==
    [session_id |-> id, role |-> role, content |-> content, usage |-> usage]

CreateSession(id) ==
    /\ sessions' = create_session(sessions, id, NEW_INSPECTION, GENERAL_ANALYSIS, clock)
    /\ last' = [op |-> "create_session", id |-> id]
    /\ UNCHANGED <<messages, seq, files, clock, appended>>

UpdateSessionMode(id, mode) ==
    /\ sessions' = update_session_mode(sessions, id, mode)
    /\ last' = [op |-> "update_session_mode", id |-> id]
    /\ UNCHANGED <<messages, seq, files, clock, appended>>

UpdateSessionImage(id) ==
    /\ sessions' = update_session_image(sessions, id, AssetPath(id))
    /\ last' = [op |-> "update_session_image", id |-> id]
    /\ UNCHANGED <<messages, seq, files, clock, appended>>

UpdateSessionTitle(id, title) ==
    /\ sessions' = update_session_title(sessions, id, title)
    /\ last' = [op |-> "update_session_title", id |-> id]
    /\ UNCHANGED <<messages, seq, files, clock, appended>>

AddMessage(id, role, content, usage) ==
    /\ seq < MaxMsgs
    /\ messages' = add_message_rows(messages, seq, id, role, content, usage)
    /\ seq' = seq + 1
    /\ sessions' = add_message_title(sessions, id, role, content)
    /\ appended' = Append(appended, LogEntry(id, role, content, usage))
    /\ last' = [op |-> "add_message", id |-> id, role |-> role, content |-> content]
    /\ UNCHANGED <<files, clock>>

DeleteSession(id, remove_ok) ==
    /\ files' = delete_session_files(sessions, files, id, remove_ok)
    /\ messages' = delete_session_messages(messages, id)
    /\ sessions' = delete_session_rows(sessions, id)
    /\ appended' = SelectSeq(appended, LAMBDA a : a.session_id # id)
    /\ last' = [op |-> "delete_session", id |-> id, remove_ok |-> remove_ok]
    /\ UNCHANGED <<seq, clock>>

NextStore ==
    \/ \E id \in Ids : CreateSession(id) /\ UNCHANGED ui
    \/ \E id \in Ids, mode \in Modes : UpdateSessionMode(id, mode) /\ UNCHANGED ui
    \/ \E id \in Ids : UpdateSessionImage(id) /\ UNCHANGED ui
    \/ \E id \in Ids, title \in Titles : UpdateSessionTitle(id, title) /\ UNCHANGED ui
    \/ \E id \in Ids, role \in Roles : \E content \in ContentsOf(role) :
          AddMessage(id, role, content, UsageOf(role)) /\ UNCHANGED ui
    \/ \E id \in Ids : DeleteSession(id, TRUE) /\ UNCHANGED ui

SpecStore == Init /\ [][NextStore]_vars

----------------------------------------------------------------------------
(* app.py and frontend/sidebar.py: one action per script run *)

UPLOADED == "<UploadedFile>"
Questions == {Q31, NEW_INSPECTION}
GatewayResponses == {[content |-> "OK", usage |-> UsageA]}
Outcomes == {"ok", "gateway_fail", "image_read_fail", "store_user_fail",
             "store_assistant_fail"}

UserMsg(prompt) == [role |-> "user", content |-> prompt, usage |-> <<>>]
\* (mutant) the answer is stored with role "user"
AssistantMsg_as_user(response) ==
    [role |-> "user", content |-> response.content, usage |-> <<response.usage>>]

\* (mutant) the assistant message is stored without usage
AssistantMsg_no_usage(response) ==
    [role |-> "assistant", content |-> response.content, usage |-> <<>>]

AssistantMsg(response) ==
    [role |-> "assistant", content |-> response.content, usage |-> <<response.usage>>]

\* schemas.py: the keys of PROMPTS in order, and the texts (first lines)
mode_options == <<"General Analysis", "Defect Inspection", "Safety Audit">>
PersonaSet == {mode_options[i] : i \in 1..Len(mode_options)}
PROMPTS(mode) ==
    CASE mode = "General Analysis" -> "Role: Senior Technical Engineer."
      [] mode = "Defect Inspection" -> "Role: QA Failure Analyst."
      [] mode = "Safety Audit" -> "Role: HSE Safety Officer."
GUARDRAIL_PROMPT == "CRITICAL OPERATIONAL PROTOCOL:"

\* (mutant) the guardrail before the persona
final_system_prompt_guardrail_first(base_instruction, user_requirements) ==
    GUARDRAIL_PROMPT \o "\n\n" \o base_instruction \o
    (IF user_requirements # ""
     THEN "\n\nADDITIONAL OPERATOR INSTRUCTIONS:\n" \o user_requirements ELSE "")

\* final_system_prompt of main()
final_system_prompt(base_instruction, user_requirements) ==
    base_instruction \o "\n\n" \o GUARDRAIL_PROMPT \o
    (IF user_requirements # ""
     THEN "\n\nADDITIONAL OPERATOR INSTRUCTIONS:\n" \o user_requirements ELSE "")

\* current_mode of render_sidebar: the saved mode when it is a key of PROMPTS
current_mode(session_meta) ==
    IF session_meta # <<>> /\ session_meta[1].mode \in PersonaSet
    THEN session_meta[1].mode ELSE GENERAL_ANALYSIS

\* the Persona selectbox of a run that has metadata session_meta and finds the
\* widget state w: a selectbox whose index differs is a new widget and shows its
\* default, the same one keeps the value the user chose
Sidebar(session_meta, w) ==
    LET current == current_mode(session_meta)
        widget == IF w # <<>> /\ w[1].default = current
                  THEN w ELSE <<[default |-> current, value |-> current]>>
    IN [current_mode |-> current, widget |-> widget, selected_mode |-> widget[1].value,
        base_instruction |-> PROMPTS(widget[1].value)]

\* Steps 2 and 3 of main(): the session of this run, then its history and metadata
Prelude ==
    LET fresh == active_session_id = NULL
        a1 == IF fresh THEN UUID(uuids + 1) ELSE active_session_id
        n1 == IF fresh THEN uuids + 1 ELSE uuids
        S1 == IF fresh
              THEN create_session(sessions, a1, NEW_INSPECTION, GENERAL_ANALYSIS, clock)
              ELSE sessions
        a2 == IF trigger_new_chat THEN UUID(n1 + 1) ELSE a1
        n2 == IF trigger_new_chat THEN n1 + 1 ELSE n1
        S2 == IF trigger_new_chat
              THEN create_session(S1, a2, NEW_INSPECTION, GENERAL_ANALYSIS, clock)
              ELSE S1
    IN [active |-> a2, uuids |-> n2, sessions |-> S2,
        st_messages |-> get_session_history(messages, a2),
        session_meta |-> get_session_meta(S2, a2)]

\* the left column: a file in the uploader is saved and linked on every run;
\* without one, the saved image is used if its file exists
Uploader(p) ==
    LET saved_image_path ==
            IF p.session_meta # <<>> THEN p.session_meta[1].image_path ELSE NULL
        file_path == AssetPath(p.active)
    IN IF uploaded_file' # NULL
       THEN [files |-> files \cup {file_path},
             sessions |-> update_session_image(p.sessions, p.active, file_path),
             active_image |-> uploaded_file']
       ELSE [files |-> files,
             sessions |-> p.sessions,
             active_image |-> IF saved_image_path # NULL /\ saved_image_path \in files
                              THEN saved_image_path ELSE NULL]

\* the rows a submit with this outcome inserts
Inserts(outcome) ==
    IF outcome = "store_user_fail" THEN 0 ELSE IF outcome = "ok" THEN 2 ELSE 1

\* (mutant) no validation of active_image
accepts_submit_always(active_image) == TRUE

\* if not active_image: st.toast(...) else: ...
accepts_submit(active_image) == active_image # NULL

\* (mutant) chat_history = st.session_state.messages
chat_history_arg_all(msgs) == msgs

\* chat_history = st.session_state.messages[:-1]
chat_history_arg(msgs) == SubSeq(msgs, 1, Len(msgs) - 1)

\* the calls of chat_with_industrial_ai made for one submit
gateway_calls(request) == <<request>>

\* (mutant) the answer is appended whether or not the call raised
assistant_turn_always(outcome, response) == <<AssistantMsg(response)>>

\* what the try block appends after the call: the answer, or nothing when it raised
assistant_turn(outcome, response) ==
    IF outcome = "ok" THEN <<AssistantMsg(response)>> ELSE <<>>

\* a script run with no widget event: the first run of a browser session, or the
\* run st.rerun() asked for
ScriptRun ==
    /\ rerun
    /\ LET p == Prelude
           s == Sidebar(p.session_meta, persona_widget)
       IN /\ p.uuids <= MaxSessions
          /\ UNCHANGED uploaded_file
          /\ persona_widget' = s.widget
          /\ IF s.selected_mode # s.current_mode
             THEN /\ sessions' = update_session_mode(p.sessions, p.active, s.selected_mode)
                  /\ rerun' = TRUE
                  /\ UNCHANGED files
             ELSE /\ LET u == Uploader(p)
                     IN /\ sessions' = u.sessions
                        /\ files' = u.files
                  /\ rerun' = FALSE
          /\ active_session_id' = p.active
          /\ uuids' = p.uuids
          /\ st_messages' = p.st_messages
    /\ trigger_new_chat' = FALSE
    /\ last' = [op |-> "run"]
    /\ UNCHANGED <<messages, seq, clock, appended>>

\* sidebar: the NEW INSPECTION button
ClickNewInspection ==
    /\ ~ rerun
    /\ uuids < MaxSessions
    /\ trigger_new_chat' = TRUE
    /\ rerun' = TRUE
    /\ st_messages' = Prelude.st_messages
    /\ last' = [op |-> "new_inspection"]
    /\ UNCHANGED <<sessions, messages, seq, files, clock, active_session_id, uploaded_file,
                   uuids, persona_widget, appended>>

\* sidebar: the Save button of Session Options, with new_name in the text input
ClickSave(new_name) ==
    /\ ~ rerun
    /\ LET p == Prelude
           current_title == p.session_meta[1].title
       IN /\ p.session_meta # <<>>
          /\ UNCHANGED uploaded_file
          /\ st_messages' = p.st_messages
          /\ IF new_name # "" /\ new_name # current_title
             THEN /\ sessions' = update_session_title(p.sessions, p.active, new_name)
                  /\ rerun' = TRUE
                  /\ UNCHANGED <<files, persona_widget>>
             ELSE /\ sessions' = Uploader(p).sessions
                  /\ files' = Uploader(p).files
                  /\ persona_widget' = Sidebar(p.session_meta, persona_widget).widget
                  /\ rerun' = FALSE
          /\ last' = [op |-> "save"]
    /\ UNCHANGED <<messages, seq, clock, active_session_id, trigger_new_chat, uuids, appended>>

\* sidebar: the Delete button of Session Options
ClickDelete(remove_ok) ==
    /\ ~ rerun
    /\ uuids < MaxSessions
    /\ LET p == Prelude
       IN /\ p.session_meta # <<>>
          /\ remove_ok \/ delete_session_file(p.sessions, files, p.active) # {}
          /\ files' = delete_session_files(p.sessions, files, p.active, remove_ok)
          /\ messages' = delete_session_messages(messages, p.active)
          /\ sessions' = delete_session_rows(p.sessions, p.active)
          /\ appended' = SelectSeq(appended, LAMBDA a : a.session_id # p.active)
          /\ st_messages' = p.st_messages
          /\ last' = [op |-> "delete", id |-> p.active, remove_ok |-> remove_ok,
                      image_path |-> p.session_meta[1].image_path]
    /\ active_session_id' = NULL
    /\ rerun' = TRUE
    /\ UNCHANGED <<seq, clock, trigger_new_chat, uploaded_file, uuids, persona_widget>>

\* sidebar: the archive button of a session get_all_sessions returned
ClickArchive(id) ==
    /\ ~ rerun
    /\ \E L \in get_all_sessions(Prelude.sessions, messages) :
          \E i \in 1..Len(L) : L[i].id = id
    /\ active_session_id' = id
    /\ rerun' = TRUE
    /\ st_messages' = Prelude.st_messages
    /\ persona_widget' = Sidebar(Prelude.session_meta, persona_widget).widget
    /\ last' = [op |-> "archive"]
    /\ UNCHANGED <<sessions, messages, seq, files, clock, trigger_new_chat, uploaded_file,
                   uuids, appended>>

\* the user puts a file into the uploader, or takes it out; the run that follows
UploaderChange(file) ==
    /\ ~ rerun
    /\ file # uploaded_file
    /\ uploaded_file' = file
    /\ LET p == Prelude
           u == Uploader(p)
       IN /\ sessions' = u.sessions
          /\ files' = u.files
          /\ st_messages' = p.st_messages
          /\ persona_widget' = Sidebar(p.session_meta, persona_widget).widget
          /\ last' = [op |-> "uploader"]
    /\ rerun' = FALSE
    /\ UNCHANGED <<messages, seq, clock, active_session_id, trigger_new_chat, uuids, appended>>

\* how an exception of the run ends: add_message for the user turn (l.189) is
\* before the try of l.207, everything later is inside it and reaches st.error
error_notice(outcome) ==
    CASE outcome = "ok" -> "none"
      [] outcome = "store_user_fail" -> "uncaught"
      [] OTHER -> "st.error"

\* st.chat_input returned prompt, with user_requirements in the Instructions text
\* area; outcome is what the environment does to this run and response what the
\* gateway answers
SubmitWith(prompt, outcome, response, user_requirements) ==
    /\ ~ rerun
    /\ UNCHANGED uploaded_file
    /\ LET p == Prelude
           s == Sidebar(p.session_meta, persona_widget)
           u == Uploader(p)
           id == p.active
           st1 == Append(p.st_messages, UserMsg(prompt))
           M1 == add_message_rows(messages, seq, id, "user", prompt, <<>>)
           S1 == add_message_title(u.sessions, id, "user", prompt)
           request == [current_question |-> prompt,
                       system_prompt |->
                           final_system_prompt(s.base_instruction, user_requirements),
                       image_file |-> u.active_image,
                       chat_history |-> chat_history_arg(st1),
                       persisted |-> get_session_history(M1, id)]
           said == assistant_turn(outcome, response)
       IN /\ s.selected_mode = s.current_mode
          /\ persona_widget' = s.widget
          /\ files' = u.files
          /\ IF ~ accepts_submit(u.active_image)
             THEN /\ outcome = "ok"
                  /\ sessions' = u.sessions
                  /\ st_messages' = p.st_messages
                  /\ last' = [op |-> "submit", id |-> id, prompt |-> prompt,
                              outcome |-> "rejected", requests |-> <<>>,
                              notice |-> "st.toast"]
                  /\ UNCHANGED <<messages, seq, appended>>
             ELSE /\ seq + Inserts(outcome) <= MaxChat
                  /\ outcome = "image_read_fail" => u.active_image # UPLOADED
                  /\ last' = [op |-> "submit", id |-> id, prompt |-> prompt,
                              outcome |-> outcome, notice |-> error_notice(outcome),
                              requests |-> IF outcome \in {"store_user_fail", "image_read_fail"}
                                           THEN <<>> ELSE gateway_calls(request)]
                  /\ IF outcome = "store_user_fail"
                     THEN /\ sessions' = u.sessions
                          /\ st_messages' = st1
                          /\ UNCHANGED <<messages, seq, appended>>
                     ELSE IF said = <<>> \/ outcome = "store_assistant_fail"
                     THEN /\ sessions' = S1
                          /\ messages' = M1
                          /\ seq' = seq + 1
                          /\ st_messages' = st1
                          /\ appended' = Append(appended, LogEntry(id, "user", prompt, <<>>))
                     ELSE /\ sessions' = add_message_title(S1, id, said[1].role, said[1].content)
                          /\ messages' = add_message_rows(M1, seq + 1, id, said[1].role,
                                                          said[1].content, said[1].usage)
                          /\ seq' = seq + 2
                          /\ st_messages' = st1 \o said
                          /\ appended' = appended \o
                                <<LogEntry(id, "user", prompt, <<>>),
                                  LogEntry(id, said[1].role, said[1].content, said[1].usage)>>
    /\ rerun' = FALSE
    /\ UNCHANGED <<clock, active_session_id, trigger_new_chat, uuids>>

\* a submit with the Instructions text area empty
Submit(prompt, outcome, response) == SubmitWith(prompt, outcome, response, "")

\* the user picks mode in the Persona selectbox; the run that follows saves it
\* and reruns when it differs from the mode of the session
SelectMode(mode) ==
    /\ ~ rerun
    /\ persona_widget # <<>>
    /\ persona_widget[1].value # mode
    /\ UNCHANGED uploaded_file
    /\ LET p == Prelude
           s == Sidebar(p.session_meta, <<[persona_widget[1] EXCEPT !.value = mode]>>)
       IN /\ persona_widget' = s.widget
          /\ st_messages' = p.st_messages
          /\ IF s.selected_mode # s.current_mode
             THEN /\ sessions' = update_session_mode(p.sessions, p.active, s.selected_mode)
                  /\ rerun' = TRUE
                  /\ UNCHANGED files
             ELSE /\ LET u == Uploader(p)
                     IN /\ sessions' = u.sessions
                        /\ files' = u.files
                  /\ rerun' = FALSE
          /\ last' = [op |-> "select_mode", id |-> p.active, mode |-> mode]
    /\ UNCHANGED <<messages, seq, clock, active_session_id, trigger_new_chat, uuids,
                   appended>>

\* another browser session of the same server opens an archived session and
\* deletes it; the st.session_state of this one is not touched
DeleteElsewhere(id) ==
    /\ \E L \in get_all_sessions(sessions, messages) :
          \E i \in 1..Len(L) : L[i].id = id
    /\ files' = delete_session_files(sessions, files, id, TRUE)
    /\ messages' = delete_session_messages(messages, id)
    /\ sessions' = delete_session_rows(sessions, id)
    /\ appended' = SelectSeq(appended, LAMBDA a : a.session_id # id)
    /\ last' = [op |-> "delete_elsewhere", id |-> id]
    /\ UNCHANGED <<seq, clock, active_session_id, trigger_new_chat, st_messages,
                   uploaded_file, rerun, uuids, persona_widget>>

\* the browser page is reloaded: a new st.session_state and new widgets
Refresh ==
    /\ uuids < MaxSessions
    /\ active_session_id' = NULL
    /\ trigger_new_chat' = FALSE
    /\ st_messages' = <<>>
    /\ uploaded_file' = NULL
    /\ persona_widget' = <<>>
    /\ rerun' = TRUE
    /\ last' = [op |-> "refresh"]
    /\ UNCHANGED <<sessions, messages, seq, files, clock, uuids, appended>>

Next ==
    \/ ScriptRun
    \/ ClickNewInspection
    \/ \E new_name \in Titles : ClickSave(new_name)
    \/ \E remove_ok \in BOOLEAN : ClickDelete(remove_ok)
    \/ \E id \in AllIds : ClickArchive(id)
    \/ \E file \in {NULL, UPLOADED} : UploaderChange(file)
    \/ \E prompt \in Questions, outcome \in Outcomes, response \in GatewayResponses :
          Submit(prompt, outcome, response)
    \/ Refresh

Spec == Init /\ [][Next]_vars

\* the orchestrator next to a second browser session on the same store
NextShared ==
    \/ Next
    \/ \E id \in AllIds : DeleteElsewhere(id)

SpecShared == Init /\ [][NextShared]_vars

\* the orchestrator with its Delete button, next to a second browser session
\* that deletes archived sessions
NextDelete ==
    \/ ScriptRun
    \/ ClickNewInspection
    \/ \E id \in AllIds : ClickArchive(id)
    \/ \E file \in {NULL, UPLOADED} : UploaderChange(file)
    \/ \E outcome \in {"ok", "gateway_fail"}, response \in GatewayResponses :
          Submit(Q31, outcome, response)
    \/ \E remove_ok \in BOOLEAN : ClickDelete(remove_ok)
    \/ \E id \in AllIds : DeleteElsewhere(id)

SpecDelete == Init /\ [][NextDelete]_vars

----------------------------------------------------------------------------
(* The orchestrator with the persona selector, on a database that may hold a *)
(* session written by an earlier version with a mode that is no key of PROMPTS *)

LEGACY_ID == "uuid-0"
LegacyRow == Row(LEGACY_ID, "Pump A", NULL, "Thermal Scan", 0)
UserRequirements == {"", "Check for cracks"}

InitPersona ==
    /\ InitUi
    /\ sessions \in {{}, {LegacyRow}}
    /\ messages = {}
    /\ seq = 0
    /\ files = {}
    /\ clock = 0
    /\ appended = <<>>
    /\ last = [op |-> "none"]

NextPersona ==
    \/ ScriptRun
    \/ ClickNewInspection
    \/ \E id \in AllIds \cup {LEGACY_ID} : ClickArchive(id)
    \/ UploaderChange(UPLOADED)
    \/ \E mode \in Modes : SelectMode(mode)
    \/ \E outcome \in {"ok", "gateway_fail"}, response \in GatewayResponses,
          user_requirements \in UserRequirements :
          SubmitWith(Q31, outcome, response, user_requirements)
    \/ Refresh

SpecPersona == InitPersona /\ [][NextPersona]_vars

\* a run that st.rerun() asked for is started by the server without any event:
\* the specifications below let it happen whenever it is pending
SpecPersonaFair == SpecPersona /\ WF_vars(ScriptRun)

\* the persona selector next to a second browser session that deletes archived
\* sessions, the active one included
NextRerun ==
    \/ ScriptRun
    \/ ClickNewInspection
    \/ \E id \in AllIds : ClickArchive(id)
    \/ \E file \in {NULL, UPLOADED} : UploaderChange(file)
    \/ \E mode \in PersonaSet : SelectMode(mode)
    \/ \E id \in AllIds : DeleteElsewhere(id)

SpecRerun == Init /\ [][NextRerun]_vars /\ WF_vars(ScriptRun)

----------------------------------------------------------------------------
(* The orchestrator with time passing: CURRENT_TIMESTAMP counts whole seconds *)

Tick ==
    /\ clock < MaxClock
    /\ clock' = clock + 1
    /\ last' = [op |-> "tick"]
    /\ UNCHANGED <<sessions, messages, seq, files, appended>>
    /\ UNCHANGED ui

NextClock ==
    \/ ScriptRun
    \/ ClickNewInspection
    \/ \E new_name \in Titles : ClickSave(new_name)
    \/ \E file \in {NULL, UPLOADED} : UploaderChange(file)
    \/ Refresh
    \/ Tick

SpecClock == Init /\ [][NextClock]_vars

----------------------------------------------------------------------------
(* The gateway client: calls of chat_with_industrial_ai *)

HistoryEntries ==
    {[role |-> "user", content |-> Q30, usage |-> <<>>],
     [role |-> "assistant", content |-> "OK", usage |-> <<UsageA>>]}
Histories == UNION {[1..n -> HistoryEntries] : n \in 0..MaxHistory}
Images == {<<>>, << <<>> >>, << <<77>> >>, << <<77, 97>> >>, << <<77, 97, 110, 33>> >>}
SystemPrompts == {final_system_prompt(PROMPTS("Safety Audit"), "Check for cracks")}
Latencies == {0 - 100, 0, 1, 200, 300, 700, 800}

Tokens(p, c, t) ==
    <<[k |-> "prompt_tokens", n |-> p], [k |-> "completion_tokens", n |-> c],
      [k |-> "total_tokens", n |-> t]>>
UsageObjects ==
    {<<>>, <<[k |-> "total_tokens", n |-> 10]>>, <<[k |-> "prompt_tokens", n |-> 7]>>,
     Tokens(90, 10, 100), Tokens(1, 0, 1)}
Choice(content) == <<[k |-> "message", message |-> <<[k |-> "content", s |-> content]>>]>>
Bodies ==
    {<<>>,
     <<[k |-> "content", s |-> "OK"]>>,
     <<[k |-> "content", s |-> NULL]>>,
     <<[k |-> "content", s |-> "OK"], [k |-> "usage", usage |-> <<>>]>>,
     <<[k |-> "choices", choices |-> <<>>], [k |-> "content", s |-> "OK"]>>,
     <<[k |-> "choices", choices |-> << <<>> >>]>>,
     <<[k |-> "choices", choices |-> <<Choice("Bearing worn"), Choice("second")>>],
       [k |-> "content", s |-> "OK"]>>}
    \cup {<<[k |-> "content", s |-> "OK"], [k |-> "usage", usage |-> <<u>>]>> :
            u \in UsageObjects}
    \cup {<<[k |-> "choices", choices |-> <<Choice("Bearing worn")>>],
             [k |-> "usage", usage |-> <<u>>]>> : u \in UsageObjects}
HttpOutcomes ==
    {[transport_error |-> <<"Max retries exceeded">>, status_code |-> 0, text |-> "",
      json |-> <<>>],
     [transport_error |-> <<>>, status_code |-> 500, text |-> "Internal Server Error",
      json |-> <<>>],
     [transport_error |-> <<>>, status_code |-> 401, text |-> "{\"error\": \"bad key\"}",
      json |-> << <<[k |-> "error", s |-> "bad key"]>> >>],
     [transport_error |-> <<>>, status_code |-> 200, text |-> "<html>", json |-> <<>>]}
    \cup {[transport_error |-> <<>>, status_code |-> 200, text |-> "{...}", json |-> <<b>>] :
            b \in Bodies}

\* one call per behaviour: its arguments, the POST and the clock are the inputs
Send(system_prompt, chat_history, current_question, image_file, http, latency) ==
    /\ last.op = "none"
    /\ \E result \in receive(http, latency) :
          last' = [op |-> "send", system_prompt |-> system_prompt,
                   chat_history |-> chat_history, current_question |-> current_question,
                   image_file |-> image_file, http |-> http, latency |-> latency,
                   payload_messages |-> build_messages(system_prompt, chat_history,
                                                       current_question, image_file),
                   result |-> result]
    /\ UNCHANGED <<sessions, messages, seq, files, clock, appended>>
    /\ UNCHANGED ui

NextGateway ==
    \E system_prompt \in SystemPrompts, chat_history \in Histories, image_file \in Images,
       http \in HttpOutcomes, latency \in Latencies :
        Send(system_prompt, chat_history, Q31, image_file, http, latency)

SpecGateway == Init /\ [][NextGateway]_vars

----------------------------------------------------------------------------
(* The store with one session and many usage structures *)

NextUsage ==
    \/ CreateSession(UUID(1)) /\ UNCHANGED ui
    \/ \E usage \in UsageInputs : AddMessage(UUID(1), "assistant", "OK", usage) /\ UNCHANGED ui
    \/ DeleteSession(UUID(1), TRUE) /\ UNCHANGED ui

SpecUsage == Init /\ [][NextUsage]_vars

----------------------------------------------------------------------------
(* The single-field updates on a sessions table of an older version *)

\* CREATE TABLE IF NOT EXISTS sessions (id, title, image_path, mode, created_at):
\* an existing table keeps the columns it was created with
COLUMNS == {"id", "title", "image_path", "mode", "created_at"}
OPERATIONAL_ERROR == "sqlite3.OperationalError"

\* a table with the given columns and one row of session UUID(1)
OldTable(columns) ==
    LET full == [id |-> UUID(1), title |-> "Pump A", image_path |-> NULL,
                 mode |-> GENERAL_ANALYSIS, created_at |-> "0"]
    IN [columns |-> columns, rows |-> {[c \in columns |-> full[c]]}]

\* c.execute("UPDATE sessions SET <column> = ? WHERE id = ?"): no such column is
\* an OperationalError
sql_update(T, column, value, session_id) ==
    IF column \notin T.columns
    THEN [raised |-> <<OPERATIONAL_ERROR>>, table |-> T]
    ELSE [raised |-> <<>>,
          table |-> [T EXCEPT !.rows = {IF r.id = session_id
                                        THEN [r EXCEPT ![column] = value]
                                        ELSE r : r \in T.rows}]]

\* c.execute("ALTER TABLE sessions ADD COLUMN <column> TEXT DEFAULT <default>"):
\* fails on a duplicate column, and when the database cannot be written
sql_add_column(T, column, default, alter_ok) ==
    IF column \in T.columns \/ ~alter_ok
    THEN [raised |-> <<OPERATIONAL_ERROR>>, table |-> T]
    ELSE [raised |-> <<>>,
          table |-> [columns |-> T.columns \cup {column},
                     rows |-> {[c \in T.columns \cup {column} |->
                                   IF c = column THEN default ELSE r[c]] : r \in T.rows}]]

\* (mutant) update_session_mode without the ALTER TABLE and the retry
update_session_mode_on_no_retry(T, session_id, mode, alter_ok) ==
    [raised |-> <<>>, table |-> sql_update(T, "mode", mode, session_id).table]

\* update_session_mode: try the UPDATE; except OperationalError: try ALTER TABLE
\* and the UPDATE again; except: pass
update_session_mode_on(T, session_id, mode, alter_ok) ==
    LET first == sql_update(T, "mode", mode, session_id)
        added == sql_add_column(T, "mode", GENERAL_ANALYSIS, alter_ok)
        again == sql_update(added.table, "mode", mode, session_id)
    IN IF first.raised = <<>> THEN first
       ELSE IF added.raised # <<>> THEN [raised |-> <<>>, table |-> T]
       ELSE [raised |-> <<>>, table |-> again.table]

\* update_session_image: try the UPDATE; except OperationalError: pass
update_session_image_on(T, session_id, image_path, alter_ok) ==
    [raised |-> <<>>, table |-> sql_update(T, "image_path", image_path, session_id).table]

\* update_session_title: the UPDATE, outside any try
update_session_title_on(T, session_id, title, alter_ok) ==
    sql_update(T, "title", title, session_id)

SchemaOps == {"update_session_mode", "update_session_image", "update_session_title"}
ColumnOf(op) ==
    CASE op = "update_session_mode" -> "mode"
      [] op = "update_session_image" -> "image_path"
      [] op = "update_session_title" -> "title"
OldColumns == {COLUMNS \ absent : absent \in SUBSET {"title", "image_path", "mode"}}
NewValues == {"Safety Audit", AssetPath(UUID(1))}

SchemaCall(op, result, columns, session_id, value, alter_ok) ==
    /\ last.op = "none"
    /\ last' = [op |-> op, session_id |-> session_id, value |-> value,
                alter_ok |-> alter_ok, before |-> OldTable(columns),
                raised |-> result.raised, after |-> result.table]
    /\ UNCHANGED <<store, ui, appended>>

NextSchema ==
    \E columns \in OldColumns, session_id \in Ids, value \in NewValues, alter_ok \in BOOLEAN :
        \/ SchemaCall("update_session_mode",
                      update_session_mode_on(OldTable(columns), session_id, value, alter_ok),
                      columns, session_id, value, alter_ok)
        \/ SchemaCall("update_session_image",
                      update_session_image_on(OldTable(columns), session_id, value, alter_ok),
                      columns, session_id, value, alter_ok)
        \/ SchemaCall("update_session_title",
                      update_session_title_on(OldTable(columns), session_id, value, alter_ok),
                      columns, session_id, value, alter_ok)

SpecSchema == Init /\ [][NextSchema]_vars

----------------------------------------------------------------------------
(* Claims about the store *)

LogOf(id) == SelectSeq(appended, LAMBDA a : a.session_id = id)
Listed(L) == {L[i] : i \in 1..Len(L)}
IsGhost(r) ==
    /\ r.title = "New Inspection"
    /\ r.image_path = NULL
    /\ get_session_history(messages, r.id) = <<>>

\* C1: whatever calls were made, get_all_sessions never returns a session that has
\* the default title, no image and no message, and it returns every session that
\* has a message, an image or another title.
C1_ListSessions ==
    \A L \in get_all_sessions(sessions, messages) :
        /\ Listed(L) \subseteq sessions
        /\ \A r \in Listed(L) : ~ IsGhost(r)
        /\ \A r \in sessions : ~ IsGhost(r) => r \in Listed(L)

C1_Witness ==
    \E g, r \in sessions :
        /\ IsGhost(g)
        /\ r.title = "Pump A" /\ r.image_path = NULL
        /\ get_session_history(messages, r.id) = <<>>
        /\ \A L \in get_all_sessions(sessions, messages) : Listed(L) = {r}

\* C2: get_session_history of a session is exactly the add_message calls made for
\* it, in the order they were made, with role, content and usage as given; the
\* ids of the rows are distinct, so that order is the strictly increasing id order.
C2_HistoryIsInsertionOrder ==
    /\ \A m1, m2 \in messages : m1.id = m2.id => m1 = m2
    /\ \A id \in AllIds :
        LET log == LogOf(id)
            h == get_session_history(messages, id)
        IN /\ Len(h) = Len(log)
           /\ \A i \in 1..Len(log) :
                /\ h[i].role = log[i].role
                /\ h[i].content = log[i].content
                /\ h[i].usage = (IF Truthy(log[i].usage) THEN log[i].usage ELSE <<>>)

C2_Witness ==
    \E id \in AllIds :
        LET h == get_session_history(messages, id)
        IN /\ Len(h) = 2
           /\ h[1].role = "user" /\ h[1].content = Q31
           /\ h[2].role = "assistant" /\ h[2].usage = <<UsageA>>

\* C3: a create_session call for an id that already has a row leaves exactly that
\* row under the id, with its title, mode and image_path as they were.
C3_CreateSessionIdempotent ==
    [][(last'.op = "create_session" /\ get_session_meta(sessions, last'.id) # <<>>)
        => /\ {r \in sessions' : r.id = last'.id} = {get_session_meta(sessions, last'.id)[1]}
           /\ sessions' = sessions]_vars

C3_Witness ==
    /\ last.op = "create_session"
    /\ \E r \in sessions :
        /\ r.id = last.id
        /\ r.title = "Pump A" /\ r.mode = "Safety Audit" /\ r.image_path # NULL

\* C4: every message added with a usage structure is read back by
\* get_session_history with a usage that has each of its fields, numerically equal.
C4_UsageRoundTrip ==
    \A id \in AllIds :
        LET log == LogOf(id)
            h == get_session_history(messages, id)
        IN /\ Len(h) = Len(log)
           /\ \A i \in 1..Len(log) :
                Truthy(log[i].usage) =>
                    /\ h[i].usage # <<>>
                    /\ \A j \in 1..Len(log[i].usage[1]) :
                        LET item == log[i].usage[1][j]
                        IN /\ HasKey(h[i].usage[1], item.k)
                           /\ NumValue(Get(h[i].usage[1], item.k)) = NumValue(item.v)

C4_Witness ==
    \E m \in messages :
        /\ m.usage_data # NULL
        /\ LET u == HistoryEntry(m).usage[1]
           IN /\ HasKey(u, "latency") /\ Get(u, "latency") = PyFloat(1234)
              /\ HasKey(u, "throughput") /\ Get(u, "throughput") = PyFloat(813)
              /\ Get(u, "prompt_tokens") = PyInt(1234)

\* C5: add_message with role "user" for a session titled "New Inspection" sets the
\* title to the content when it has at most 30 characters and to its first 30
\* characters followed by "..." when it is longer; with role "assistant", or with
\* another title, the title stays.
C5_AutoRename ==
    [][last'.op = "add_message"
        => \A r \in sessions : r.id = last'.id =>
            \E r2 \in sessions' :
                /\ r2.id = r.id
                /\ r2.title =
                    IF last'.role = "user" /\ r.title = "New Inspection"
                    THEN (IF Len(last'.content) <= 30 THEN last'.content
                          ELSE SubSeq(last'.content, 1, 30) \o "...")
                    ELSE r.title]_vars

C5_Witness ==
    /\ last.op = "add_message" /\ last.role = "user" /\ last.content = Q31
    /\ Len(Q31) = 31 /\ Len(Q30) = 30
    /\ \E r \in sessions :
        r.id = last.id /\ r.title = "Check the bearing for wear now..."
    /\ \E r \in sessions : r.title = Q30

----------------------------------------------------------------------------
(* Claims about the orchestrator *)

TitleOf(S, id) == {r.title : r \in {x \in S : x.id = id}}
HasUserMessage(h) == \E i \in 1..Len(h) : h[i].role = "user"

\* the state no_image of a session: nothing in the uploader, and no saved asset
\* of the session that exists
NoImage(id) ==
    /\ uploaded_file = NULL
    /\ ~ \E r \in sessions : r.id = id /\ r.image_path # NULL /\ r.image_path \in files

\* C6: a submit in a session whose persisted history already has a user message
\* leaves the title of that session as it was.
C6_RenameAtMostOnce ==
    [][(last'.op = "submit"
        /\ HasUserMessage(get_session_history(messages, last'.id)))
        => TitleOf(sessions', last'.id) = TitleOf(sessions, last'.id)]_vars

\* C7 as stated: after Delete the session has no record and no history, and the
\* asset that was linked to it is not in the asset store.
C7_DeleteRemovesAsset ==
    last.op = "delete"
        => /\ get_session_meta(sessions, last.id) = <<>>
           /\ get_session_history(messages, last.id) = <<>>
           /\ last.image_path # NULL => last.image_path \notin files

\* C7: after Delete the session has no record and no history; the asset that was
\* linked to it is not in the asset store when os.remove succeeded, and is still
\* there when os.remove raised.
C7_DeleteBestEffortAsset ==
    last.op = "delete"
        => /\ get_session_meta(sessions, last.id) = <<>>
           /\ get_session_history(messages, last.id) = <<>>
           /\ (last.image_path # NULL /\ last.remove_ok) => last.image_path \notin files
           /\ ~ last.remove_ok => last.image_path \in files

C7_Witness ==
    /\ last.op = "delete" /\ last.remove_ok
    /\ last.image_path = AssetPath(UUID(1)) /\ last.image_path \notin files
    /\ uuids = 1 /\ seq = 2 /\ messages = {} /\ sessions = {}

\* C8: a submit in a session in no_image stores no message, leaves the in-memory
\* history equal to the persisted one, leaves every session record and every
\* asset as it was, and makes no gateway call.
C8_SubmitWithoutImage ==
    [][(last'.op = "submit" /\ NoImage(last'.id))
        => /\ messages' = messages
           /\ seq' = seq
           /\ st_messages' = get_session_history(messages, last'.id)
           /\ Len(st_messages') <= Len(st_messages)
           /\ sessions' = sessions
           /\ files' = files
           /\ last'.requests = <<>>]_vars

C8_Witness ==
    /\ last.op = "submit" /\ last.prompt = Q31
    /\ NoImage(last.id)
    /\ TitleOf(sessions, last.id) = {"New Inspection"}
    /\ \E r \in sessions : r.id # last.id /\ r.image_path \in files

\* C9: an accepted submit whose gateway call fails leaves the persisted history of
\* the session, and the in-memory history, equal to the history before the submit
\* followed by one user message with the question; other sessions keep theirs.
C9_GatewayFailureKeepsUserMessage ==
    [][(last'.op = "submit" /\ last'.outcome = "gateway_fail")
        => LET H0 == get_session_history(messages, last'.id)
               H1 == Append(H0, UserMsg(last'.prompt))
           IN /\ get_session_history(messages', last'.id) = H1
              /\ st_messages' = H1
              /\ Len(last'.requests) = 1
              /\ \A id \in AllIds \ {last'.id} :
                    get_session_history(messages', id) = get_session_history(messages, id)]_vars

C9_Witness ==
    /\ last.op = "submit" /\ last.outcome = "gateway_fail"
    /\ LET h == get_session_history(messages, last.id)
       IN /\ Len(h) = 2
          /\ h[2] = UserMsg(last.prompt)
          /\ st_messages = h

\* C10: an accepted submit that reaches the gateway calls it exactly once, when the
\* user message is already persisted, with the question and with the history as it
\* was before the submit; when the call and the store succeed, the persisted and
\* the in-memory history grow by exactly the user message and one assistant
\* message with the returned content and usage.
C10_SubmitOrder ==
    [][(last'.op = "submit"
        /\ last'.outcome \in {"ok", "gateway_fail", "store_assistant_fail"})
        => LET H0 == get_session_history(messages, last'.id)
               H1 == Append(H0, UserMsg(last'.prompt))
           IN /\ Len(last'.requests) = 1
              /\ last'.requests[1].current_question = last'.prompt
              /\ last'.requests[1].chat_history = H0
              /\ last'.requests[1].persisted = H1
              /\ last'.outcome = "ok" =>
                    \E response \in GatewayResponses :
                        /\ get_session_history(messages', last'.id)
                              = Append(H1, AssistantMsg(response))
                        /\ st_messages' = Append(H1, AssistantMsg(response))
                        /\ seq' = seq + 2]_vars

C10_Witness ==
    /\ last.op = "submit" /\ last.outcome = "ok"
    /\ Len(last.requests) = 1
    /\ LET h == get_session_history(messages, last.id)
       IN /\ Len(h) = 2
          /\ h[1].role = "user" /\ h[1].content = last.prompt
          /\ h[2].role = "assistant" /\ h[2].content = "OK" /\ h[2].usage = <<UsageA>>

\* C11: every submit that ends in an error (storing the user message, reading
\* the image, the gateway call, storing the assistant message) ends in the
\* except clause of the handler, which shows st.error.
C11_SubmitErrorsCaught ==
    (last.op = "submit"
     /\ last.outcome \in {"store_user_fail", "image_read_fail", "gateway_fail",
                          "store_assistant_fail"})
        => last.notice = "st.error"

\* C12: in every reachable state every message row names a session that has a
\* record.
C12_NoOrphanMessages ==
    \A m \in messages : get_session_meta(sessions, m.session_id) # <<>>

PersistedPersona(S, id) ==
    LET modes == {r.mode : r \in {x \in S : x.id = id}}
    IN IF modes \subseteq {"General Analysis", "Defect Inspection", "Safety Audit"}
          /\ modes # {}
       THEN CHOOSE m \in modes : TRUE ELSE "General Analysis"
BeginsWith(s, prefix) == Len(s) >= Len(prefix) /\ SubSeq(s, 1, Len(prefix)) = prefix

\* C13: picking a mode in the Persona selector leaves that mode in the record of
\* the session, and every submit that reaches the gateway sends a system prompt
\* that begins with the base instruction of the mode the record of the session
\* holds, General Analysis standing for a mode that is no key of PROMPTS.
C13_PersonaGatesPrompt ==
    [][/\ last'.op = "select_mode"
            => \A r \in sessions' : r.id = last'.id => r.mode = last'.mode
       /\ (last'.op = "submit" /\ last'.requests # <<>>)
            => /\ BeginsWith(last'.requests[1].system_prompt,
                             PROMPTS(PersistedPersona(sessions, last'.id)))
               /\ PersistedPersona(sessions', last'.id) = PersistedPersona(sessions, last'.id)
      ]_vars

C13_Witness ==
    /\ last.op = "submit" /\ last.outcome = "ok"
    /\ \E r \in sessions : r.id = last.id /\ r.mode = "Safety Audit"
    /\ last.requests[1].system_prompt =
          "Role: HSE Safety Officer.\n\nCRITICAL OPERATIONAL PROTOCOL:"
              \o "\n\nADDITIONAL OPERATOR INSTRUCTIONS:\nCheck for cracks"
    /\ \E r \in sessions : r.id # last.id /\ r.mode = "General Analysis"

C13_WitnessUnknownMode ==
    /\ last.op = "submit" /\ last.id = LEGACY_ID /\ last.requests # <<>>
    /\ \E r \in sessions : r.id = last.id /\ r.mode = "Thermal Scan"
    /\ BeginsWith(last.requests[1].system_prompt, "Role: Senior Technical Engineer.")

----------------------------------------------------------------------------
(* Claims about the gateway client *)

\* C14: the messages of the payload are one system message with system_prompt,
\* then role and content of every history entry in order, then one user message
\* whose content is the text part with the question, followed by one image part
\* exactly when an image file was given; len(history) + 2 messages in all.
C14_RequestShape ==
    last.op = "send" =>
        LET m == last.payload_messages
            h == last.chat_history
            final == m[Len(m)]
        IN /\ Len(m) = Len(h) + 2
           /\ m[1] = [role |-> "system", content |-> last.system_prompt]
           /\ \A i \in 1..Len(h) :
                m[i + 1] = [role |-> h[i].role, content |-> h[i].content]
           /\ final.role = "user"
           /\ final.content[1] = [type |-> "text", text |-> last.current_question]
           /\ Len(final.content) = (IF last.image_file # <<>> THEN 2 ELSE 1)
           /\ last.image_file # <<>> =>
                /\ final.content[2].type = "image_url"
                /\ BeginsWith(final.content[2].image_url.url, "data:image/jpeg;base64,")

C14_Witness ==
    /\ last.op = "send"
    /\ Len(last.chat_history) = 2
    /\ last.chat_history[1].role = "user" /\ last.chat_history[2].role = "assistant"
    /\ last.image_file = << <<77, 97, 110, 33>> >>
    /\ Len(last.payload_messages) = 4
    /\ last.payload_messages[4].content[2].image_url.url = "data:image/jpeg;base64,TWFuIQ=="

\* C15: a call whose POST returns a status other than 200 fails with an error
\* that carries the response body and is not of the "Connection failed" kind
\* raised for transport and parsing failures.
C15_UpstreamErrorKind ==
    (last.op = "send" /\ last.http.transport_error = <<>> /\ last.http.status_code # 200)
        => /\ last.result.raised # <<>>
           /\ last.result.raised[1] = "API Error: " \o last.http.text
           /\ ~ BeginsWith(last.result.raised[1], "Connection failed: ")

HasContentPath(data) ==
    /\ HasKey(data, "choices")
    /\ Len(Item(data, "choices").choices) >= 1
    /\ HasKey(Item(data, "choices").choices[1], "message")
    /\ HasKey(Item(Item(data, "choices").choices[1], "message").message, "content")
ExpectedContent(data) ==
    IF HasContentPath(data)
    THEN Item(Item(Item(data, "choices").choices[1], "message").message, "content").s
    ELSE IF HasKey(data, "content") THEN Item(data, "content").s
    ELSE "Error: No content returned."

\* C16: a call whose POST returns 200 with a JSON object (its usage an object or
\* absent, its texts strings) returns, with the text of
\* choices[0].message.content when that path exists, else of the top-level
\* content, else the placeholder.
C16_ContentFallback ==
    (/\ last.op = "send" /\ last.http.transport_error = <<>>
     /\ last.http.status_code = 200 /\ last.http.json # <<>>
     /\ ~ (HasKey(last.http.json[1], "usage") /\ Item(last.http.json[1], "usage").usage = <<>>)
     /\ ExpectedContent(last.http.json[1]) # NULL)
        => /\ last.result.raised = <<>>
           /\ last.result.value.content = ExpectedContent(last.http.json[1])

ExpectedTokens(data, field) ==
    IF HasKey(data, "usage") /\ HasKey(Item(data, "usage").usage[1], field)
    THEN Item(Item(data, "usage").usage[1], field).n ELSE 0

C18_ThroughputExact ==
    (last.op = "send" /\ last.result.raised = <<>>)
        => LET tps == Get(last.result.value.usage, "throughput").n
               total == Get(last.result.value.usage, "total_tokens").n
           IN IF last.latency > 0 THEN tps * last.latency = total * 10000 ELSE tps = 0

\* a 200 response with a JSON object whose text is found where the client looks
\* for it and whose usage is an object or absent
GoodResponse(http) ==
    /\ http.transport_error = <<>> /\ http.status_code = 200 /\ http.json # <<>>
    /\ HasKey(http.json[1], "choices") => HasContentPath(http.json[1])
    /\ ExpectedContent(http.json[1]) # NULL
    /\ ~ (HasKey(http.json[1], "usage") /\ Item(http.json[1], "usage").usage = <<>>)

\* C18: the throughput is total_tokens / latency rounded to two decimals (at most
\* half a hundredth away from the quotient) when the latency is positive, and 0
\* otherwise; whatever the latency, a call with a good response returns.
C18_ThroughputRounded ==
    /\ (last.op = "send" /\ GoodResponse(last.http)) => last.result.raised = <<>>
    /\ (last.op = "send" /\ last.result.raised = <<>>)
        => LET tps == Get(last.result.value.usage, "throughput").n
               total == Get(last.result.value.usage, "total_tokens").n
               diff == tps * last.latency - total * 10000
           IN /\ Get(last.result.value.usage, "latency") = PyFloat(last.latency)
              /\ IF last.latency > 0
                 THEN 2 * diff <= last.latency /\ 0 - last.latency <= 2 * diff
                 ELSE tps = 0

C18_Witness ==
    /\ last.op = "send" /\ last.result.raised = <<>>
    /\ last.latency = 300
    /\ Get(last.result.value.usage, "total_tokens") = PyInt(100)
    /\ Get(last.result.value.usage, "throughput") = PyFloat(3333)

C18_WitnessZeroLatency ==
    /\ last.op = "send" /\ last.result.raised = <<>>
    /\ last.latency = 0
    /\ Get(last.result.value.usage, "total_tokens") = PyInt(100)
    /\ Get(last.result.value.usage, "throughput") = PyFloat(0)

----------------------------------------------------------------------------
(* More claims about the store *)

UpdateOps == {"update_session_mode", "update_session_image", "update_session_title"}
SameBut(r, r2, op) ==
    CASE op = "update_session_mode" -> r2 = [r EXCEPT !.mode = r2.mode]
      [] op = "update_session_image" -> r2 = [r EXCEPT !.image_path = r2.image_path]
      [] op = "update_session_title" -> r2 = [r EXCEPT !.title = r2.title]

\* C19: update_session_mode, update_session_image and update_session_title leave
\* messages and assets alone and keep the set of session ids; for an id without
\* a record the sessions stay as they are, and for an id with a record every
\* other session stays and the named one changes in the named field at most.
C19_SingleFieldUpdates ==
    [][last'.op \in UpdateOps
        => /\ messages' = messages /\ seq' = seq /\ files' = files
           /\ {r.id : r \in sessions'} = {r.id : r \in sessions}
           /\ Cardinality(sessions') = Cardinality(sessions)
           /\ get_session_meta(sessions, last'.id) = <<>> => sessions' = sessions
           /\ \A r \in sessions :
                IF r.id # last'.id THEN r \in sessions'
                ELSE \E r2 \in sessions' : r2.id = r.id /\ SameBut(r, r2, last'.op)]_vars

C19_Witness ==
    /\ last.op = "update_session_title"
    /\ get_session_meta(sessions, last.id) = <<>>
    /\ \E r \in sessions : r.title = "Pump A" /\ r.mode = "Safety Audit"
    /\ messages # {}

\* the orchestrator draws the ids in the order UUID(1), UUID(2), ...: the rank of
\* a session in the order of creation
CreatedRank(id) == CHOOSE i \in 1..(MaxSessions + 1) : UUID(i) = id

\* C20: in every list get_all_sessions can return, a session created later than
\* another one comes before it.
C20_NewestFirst ==
    \A L \in get_all_sessions(sessions, messages) :
        \A i, j \in 1..Len(L) :
            CreatedRank(L[i].id) > CreatedRank(L[j].id) => i < j

----------------------------------------------------------------------------
(* More claims about the orchestrator *)

\* C21: a script run that makes a new session active (the first run, the run
\* after NEW INSPECTION, the run after Delete) ends with that session persisted
\* with the default title, no image and no messages.
C21_NewSessionIsEmpty ==
    [][(last'.op = "run" /\ active_session_id' # active_session_id)
        => /\ get_session_history(messages', active_session_id') = <<>>
           /\ \E r \in sessions' :
                /\ r.id = active_session_id'
                /\ r.title = "New Inspection"
                /\ r.image_path = NULL]_vars

\* the record of session id names an asset that exists
Linked(S, F, id) ==
    \E r \in S : r.id = id /\ r.image_path # NULL /\ r.image_path \in F

SameUsage(u, v) ==
    /\ Len(u) = Len(v)
    /\ \A j \in 1..Len(v) :
         HasKey(u, v[j].k) /\ NumValue(Get(u, v[j].k)) = NumValue(v[j].v)

\* C23: every stored message has role "user" or "assistant"; a user message has
\* no usage; an assistant message has the content and the usage metrics of a
\* response the gateway returned.
C23_UsageOnlyOnAssistant ==
    \A m \in messages :
        /\ m.role \in {"user", "assistant"}
        /\ m.role = "user" => m.usage_data = NULL
        /\ m.role = "assistant" =>
             /\ m.usage_data # NULL
             /\ \E response \in GatewayResponses :
                  /\ m.content = response.content
                  /\ SameUsage(json_loads(m.usage_data), response.usage)

C23_Witness ==
    /\ last.op = "submit" /\ last.outcome = "ok"
    /\ \E m, n \in messages :
         /\ m.session_id = last.id /\ n.session_id = last.id
         /\ m.role = "user" /\ m.usage_data = NULL
         /\ n.role = "assistant" /\ n.usage_data = json_dumps(UsageA)

\* the update of last took effect: the column exists and the row of the session,
\* when there is one, holds the value
TookEffect ==
    /\ ColumnOf(last.op) \in last.after.columns
    /\ \A r \in last.after.rows : r.id = last.session_id => r[ColumnOf(last.op)] = last.value

\* C24: a single-field update whose column is absent from the sessions table
\* never raises; it adds the column and repeats the update, so that the update
\* takes effect unless adding the column fails.
C24_SchemaTolerance ==
    (last.op \in SchemaOps /\ ColumnOf(last.op) \notin last.before.columns)
        => /\ last.raised = <<>>
           /\ last.alter_ok => TookEffect

\* the same for update_session_mode alone
C24_ModeTolerance ==
    (last.op = "update_session_mode" /\ "mode" \notin last.before.columns)
        => /\ last.raised = <<>>
           /\ last.alter_ok => TookEffect
           /\ ~last.alter_ok => last.after = last.before

C24_ModeWitness ==
    /\ last.op = "update_session_mode" /\ "mode" \notin last.before.columns
    /\ last.alter_ok /\ last.session_id = UUID(1)
    /\ \E r \in last.after.rows : r.mode = "Safety Audit"

\* what the store and the assets directory hold of session id
Owned(S, M, F, id) ==
    [rows |-> {r \in S : r.id = id},
     messages |-> {m \in M : m.session_id = id},
     asset |-> AssetPath(id) \in F]

\* C25: every session record has no image_path or the asset path made from its
\* own id, and a delete_session(id) leaves the record, the messages and the asset
\* of every other session as they were.
C25_DeleteFrame ==
    [][/\ \A r \in sessions' : r.image_path \in {NULL, AssetPath(r.id)}
       /\ last'.op \in {"delete", "delete_elsewhere"}
            => \A id \in AllIds \ {last'.id} :
                 Owned(sessions', messages', files', id) = Owned(sessions, messages, files, id)
      ]_vars

C25_Witness ==
    /\ last.op \in {"delete", "delete_elsewhere"}
    /\ AssetPath(last.id) \notin files
    /\ \E r \in sessions :
         /\ r.id # last.id
         /\ r.image_path = AssetPath(r.id) /\ r.image_path \in files
         /\ \E m \in messages : m.session_id = r.id

\* the roles of get_session_history(M, id), in its order
HistoryRoles(M, id) ==
    LET rows == OrderById({m \in M : m.session_id = id})
    IN [i \in 1..Len(rows) |-> [role |-> rows[i].role]]

EndsWithUser(h) == h # <<>> /\ h[Len(h)].role = "user"
AdjacentUsers(h) == \E i \in 1..(Len(h) - 1) : h[i].role = "user" /\ h[i + 1].role = "user"
FailedSubmit == {"gateway_fail", "image_read_fail", "store_assistant_fail"}

\* C26: with one browser session, the persisted history of every session begins
\* with a user message and every assistant message directly follows a user
\* message; a history comes to end with a user message only by a submit that
\* failed, and two adjacent user messages appear only by a submit into a history
\* that such a failed submit left ending with a user message.
C26_HistoryShape ==
    [][\A id \in {m.session_id : m \in messages'} :
         LET h == HistoryRoles(messages, id)
             g == HistoryRoles(messages', id)
         IN /\ g # <<>> => g[1].role = "user"
            /\ \A i \in 1..Len(g) :
                 g[i].role = "assistant" => (i > 1 /\ g[i - 1].role = "user")
            /\ (EndsWithUser(g) /\ g # h)
                 => (last'.op = "submit" /\ last'.id = id /\ last'.outcome \in FailedSubmit)
            /\ (AdjacentUsers(g) /\ ~ AdjacentUsers(h))
                 => (EndsWithUser(h) /\ last'.op = "submit" /\ last'.id = id)
      ]_vars

C26_Witness ==
    /\ last.op = "submit" /\ last.outcome = "store_assistant_fail"
    /\ LET h == get_session_history(messages, last.id)
       IN Len(h) = 2 /\ AdjacentUsers(h)

C26_WitnessAnswered ==
    /\ last.op = "submit" /\ last.outcome = "ok"
    /\ LET h == get_session_history(messages, last.id)
       IN Len(h) = 2 /\ h[1].role = "user" /\ h[2].role = "assistant"

\* C27: whenever a rerun is pending (the sidebar wrote the selected persona and
\* called st.rerun()), the reruns end: a run comes in which the selected persona
\* equals the one read back from the store and no further rerun is asked for.
C27_RerunLoopStabilises == rerun ~> ~ rerun

\* the state in which the loop turns: a persona other than the default is selected
\* for an active session that has no record
C27_LoopState ==
    /\ rerun /\ last.op = "run"
    /\ active_session_id # NULL
    /\ get_session_meta(sessions, active_session_id) = <<>>
    /\ persona_widget # <<>> /\ persona_widget[1].value # persona_widget[1].default

====

